---- MODULE Spec2Model ----
(***************************************************************************)
(* Model of pdf_table_extractor.py: the page-specification parsing loop of *)
(* process_folder, PDFTableExtractor.merge_table_data, format_table_data,  *)
(* generate_hash, generate_sql_insert, process_all_pages and the document  *)
(* loop of process_folder.                                                 *)
(*                                                                         *)
(* Text is modelled as a sequence of one-character strings, so that        *)
(* str.split, str.strip, str.replace, the `in` test and int() are computed *)
(* character by character as Python computes them.                         *)
(***************************************************************************)
EXTENDS Integers, Sequences, FiniteSets, TLC

VARIABLES
  content,        \* parser run: text of the .txt page-specification file
  parse_pc,       \* parser run: "ready" before the parsing loop, "done" after
  parsed          \* parser run: page_numbers built by the loop, or ValueError

pvars == <<content, parse_pc, parsed>>

VARIABLES
  table_list,     \* merge run: the argument of merge_table_data
  merge_pc,       \* merge run: "ready" before the call, "done" after
  merged          \* merge run: the value merge_table_data returned

mvars == <<table_list, merge_pc, merged>>

VARIABLES
  enc_args,       \* encode run: page_number, exp_id, exp_batch_no of the calls
  enc_results,    \* encode run: the statements generate_sql_insert returned
  now             \* the wall clock read by datetime.now(), in seconds

evars == <<enc_args, enc_results>>

VARIABLES
  folder_exp_id,        \* process_folder: the exp_id argument
  folder_exp_batch_no,  \* process_folder: the exp_batch_no argument
  pdf_files,      \* process_folder: the documents of the batch, in glob order
  pc,             \* process_folder: position in the code
  doc,            \* process_folder: number of documents the for loop has taken
  report,         \* the line printed when the loop leaves a document
  artifacts,      \* the .sql file written for each document (<<>>: no file)
  self_page_numbers,    \* self.page_numbers of the current document's extractor
  unit,           \* process_all_pages: number of page items already handled
  page_idx,       \* process_all_pages: number of pages of the group handled
  group_tables,   \* process_all_pages: table_list of the group being read
  sql_statements, \* process_all_pages: sql_statements of the current document
  page_log,       \* what the rasterizer and the recognizer answered, per unit
  unit_sql        \* the statement each handled unit produced, or None

bvars == <<folder_exp_id, folder_exp_batch_no, pdf_files, pc, doc, report,
           artifacts, self_page_numbers, unit, page_idx, group_tables, sql_statements,
           page_log, unit_sql>>

vars == <<pvars, mvars, evars, now, bvars>>

\* ------------------------------------------------------------------------
\* Bounds of the model
\* ------------------------------------------------------------------------

\* largest number of comma-separated tokens in a page specification
MaxParts == 4

\* largest number of body rows the recognizer returns for one page
MaxRows == 1

\* largest number of tables handed to merge_table_data
MaxTables == 3

\* the wall clock runs from 0 to MaxClock
MaxClock == 2

\* largest number of documents in a batch
MaxDocs == 2

\* ------------------------------------------------------------------------
\* Python string primitives
\* ------------------------------------------------------------------------

DigitChars == {"0", "1", "2", "3", "4", "5", "6", "7", "8", "9"}

DigitVal(c) ==
  CASE c = "0" -> 0 [] c = "1" -> 1 [] c = "2" -> 2 [] c = "3" -> 3
    [] c = "4" -> 4 [] c = "5" -> 5 [] c = "6" -> 6 [] c = "7" -> 7
    [] c = "8" -> 8 [] c = "9" -> 9

\* c in s
Contains(s, c) == \E k \in 1..Len(s) : s[k] = c

\* s.replace(c, '')
Remove(s, c) == SelectSeq(s, LAMBDA x : x # c)

RECURSIVE LStrip(_)
LStrip(s) == IF s # <<>> /\ Head(s) = " " THEN LStrip(Tail(s)) ELSE s

RECURSIVE RStrip(_)
RStrip(s) ==
  IF s # <<>> /\ s[Len(s)] = " " THEN RStrip(SubSeq(s, 1, Len(s) - 1)) ELSE s

\* s.strip()
Strip(s) == RStrip(LStrip(s))

\* s.startswith(c)
StartsWith(s, c) == s # <<>> /\ Head(s) = c

\* index of the first occurrence of c in s (0 when absent)
RECURSIVE FindFrom(_, _, _)
FindFrom(s, c, k) ==
  IF k > Len(s) THEN 0 ELSE IF s[k] = c THEN k ELSE FindFrom(s, c, k + 1)

\* s.split(c): always at least one piece
RECURSIVE Split(_, _)
Split(s, c) ==
  LET k == FindFrom(s, c, 1) IN
  IF k = 0 THEN <<s>>
  ELSE <<SubSeq(s, 1, k - 1)>> \o Split(SubSeq(s, k + 1, Len(s)), c)

\* sep.join(pieces)
RECURSIVE Join(_, _)
Join(pieces, sep) ==
  IF pieces = <<>> THEN <<>>
  ELSE IF Len(pieces) = 1 THEN pieces[1]
  ELSE pieces[1] \o sep \o Join(Tail(pieces), sep)

RECURSIVE DigitsValue(_, _)
DigitsValue(ds, acc) ==
  IF ds = <<>> THEN acc ELSE DigitsValue(Tail(ds), 10 * acc + DigitVal(Head(ds)))

\* int(s): surrounding whitespace is ignored, an optional sign is followed by
\* one or more decimal digits; anything else raises ValueError (ok = FALSE)
PyInt(s) ==
  LET t      == Strip(s)
      signed == t # <<>> /\ Head(t) \in {"-", "+"}
      ds     == IF signed THEN Tail(t) ELSE t
      ok     == ds # <<>> /\ \A k \in 1..Len(ds) : ds[k] \in DigitChars
      mag    == IF ok THEN DigitsValue(ds, 0) ELSE 0
  IN  [ok |-> ok, val |-> IF signed /\ Head(t) = "-" THEN 0 - mag ELSE mag]

\* ------------------------------------------------------------------------
\* process_folder: reading and parsing the page specification
\* ------------------------------------------------------------------------

\* an int element of page_numbers
Single(n) == [kind |-> "single", pages |-> <<n>>]

\* a list element of page_numbers
Group(ps) == [kind |-> "group", pages |-> ps]

\* int() raised ValueError inside the parsing loop: page_numbers is lost
ParseError == [ok |-> FALSE, page_numbers |-> <<>>]

\* lines 424-427: drop blank and comment lines, join the rest with a space
PageNumbersStr(text) ==
  LET lines == SelectSeq(Split(Strip(text), "\n"),
                         LAMBDA line : Strip(line) # <<>>
                                       /\ ~StartsWith(Strip(line), "#"))
  IN  Join(lines, <<" ">>)

\* the inner while with a slip: the pages between the first and the last
\* token of a group are read but not kept
RECURSIVE ReadGroupSkipping(_, _, _)
ReadGroupSkipping(parts, i, group) ==
  IF i <= Len(parts) /\ ~Contains(parts[i], ")")
  THEN LET n == PyInt(Strip(parts[i])) IN
       IF n.ok THEN ReadGroupSkipping(parts, i + 1, group)
       ELSE [err |-> TRUE, i |-> i, group |-> group]
  ELSE [err |-> FALSE, i |-> i, group |-> group]

\* lines 449-451: the inner while that reads the pages of a group
RECURSIVE ReadGroup(_, _, _)
ReadGroup(parts, i, group) ==
  IF i <= Len(parts) /\ ~Contains(parts[i], ")")
  THEN LET n == PyInt(Strip(parts[i])) IN
       IF n.ok THEN ReadGroup(parts, i + 1, Append(group, n.val))
       ELSE [err |-> TRUE, i |-> i, group |-> group]
  ELSE [err |-> FALSE, i |-> i, group |-> group]

\* lines 436-465: the outer while (i is 1-based here)
RECURSIVE ParseLoop(_, _, _)
ParseLoop(parts, i, page_numbers) ==
  IF i > Len(parts) THEN [ok |-> TRUE, page_numbers |-> page_numbers]
  ELSE
    LET part == Strip(parts[i]) IN
    IF Contains(part, "(")
    THEN LET first_page == Strip(Remove(part, "("))
             first      == PyInt(first_page)
             group0     == IF first_page # <<>> THEN <<first.val>> ELSE <<>>
             rd         == ReadGroup(parts, i + 1, group0)
             last_page  == IF rd.i <= Len(parts)
                           THEN Strip(Remove(parts[rd.i], ")")) ELSE <<>>
             last       == PyInt(last_page)
             group      == IF last_page # <<>>
                           THEN Append(rd.group, last.val) ELSE rd.group
         IN  IF first_page # <<>> /\ ~first.ok THEN ParseError
             ELSE IF rd.err THEN ParseError
             ELSE IF last_page # <<>> /\ ~last.ok THEN ParseError
             ELSE ParseLoop(parts, rd.i + 1, Append(page_numbers, Group(group)))
    ELSE IF part # <<>>
         THEN LET n == PyInt(part) IN
              IF n.ok THEN ParseLoop(parts, i + 1, Append(page_numbers, Single(n.val)))
              ELSE ParseError
         ELSE ParseLoop(parts, i + 1, page_numbers)

\* lines 423-465: content of the .txt file -> page_numbers (or ValueError)
ParsePageSpec(text) ==
  ParseLoop(Split(PageNumbersStr(text), ","), 1, <<>>)

\* ------------------------------------------------------------------------
\* PDFTableExtractor: tables, merge_table_data, format_table_data
\* ------------------------------------------------------------------------

\* Python's None
None == [none |-> TRUE]

\* d.get(key, default)
Get(d, key, default) == IF key \in DOMAIN d THEN d[key] ELSE default

\* lines 148-163: table names, header rows and body rows the recognizer
\* returns in the model
TableNames == {"Dispensing Area Checklist", "Equipment Calibration Table"}

HeaderRows == {<<"Equipment", "ID">>, <<"Name", "Due">>}

BodyRows == {<<"r1", "a">>, <<"r2", "b">>}

RowSeqs == UNION { [1..n -> BodyRows] : n \in 0..MaxRows }

\* lines 158-163: the dictionary extract_table_from_image returns
Tables == [table_name : TableNames, headers : HeaderRows, rows : RowSeqs]

\* the row loop with a slip: a row already collected is not added again
RECURSIVE AddNewRows(_, _)
AddNewRows(rows, more) ==
  IF more = <<>> THEN rows
  ELSE IF \E k \in 1..Len(rows) : rows[k] = Head(more)
       THEN AddNewRows(rows, Tail(more))
       ELSE AddNewRows(Append(rows, Head(more)), Tail(more))

RECURSIVE ExtendRowsUnique(_, _, _)
ExtendRowsUnique(tl, k, rows) ==
  IF k > Len(tl) THEN rows
  ELSE IF tl[k] # None /\ "rows" \in DOMAIN tl[k]
       THEN ExtendRowsUnique(tl, k + 1, AddNewRows(rows, tl[k].rows))
       ELSE ExtendRowsUnique(tl, k + 1, rows)

\* lines 279-281: extend merged['rows'] with the rows of each table in turn
RECURSIVE ExtendRows(_, _, _)
ExtendRows(tl, k, rows) ==
  IF k > Len(tl) THEN rows
  ELSE IF tl[k] # None /\ "rows" \in DOMAIN tl[k]
       THEN ExtendRows(tl, k + 1, rows \o tl[k].rows)
       ELSE ExtendRows(tl, k + 1, rows)

\* lines 255-283
MergeTableData(tl) ==
  IF tl = <<>> THEN None
  ELSE IF Len(tl) = 1 THEN tl[1]
  ELSE [table_name |-> Get(tl[1], "table_name", "Equipment Calibration Table"),
        headers    |-> Get(tl[1], "headers", <<>>),
        rows       |-> ExtendRows(tl, 1, <<>>)]

\* lines 171-193: headers as the first row, then the rows
FormatTableData(table_data) ==
  IF table_data = None THEN <<>>
  ELSE (IF "headers" \in DOMAIN table_data THEN <<table_data.headers>> ELSE <<>>)
       \o (IF "rows" \in DOMAIN table_data THEN table_data.rows ELSE <<>>)

\* ------------------------------------------------------------------------
\* PDFTableExtractor: generate_hash, generate_sql_insert
\* ------------------------------------------------------------------------

DigitChar(d) ==
  CASE d = 0 -> "0" [] d = 1 -> "1" [] d = 2 -> "2" [] d = 3 -> "3"
    [] d = 4 -> "4" [] d = 5 -> "5" [] d = 6 -> "6" [] d = 7 -> "7"
    [] d = 8 -> "8" [] d = 9 -> "9"

\* str(n) for an int n
RECURSIVE IntToStr(_)
IntToStr(n) ==
  IF n < 0 THEN <<"-">> \o IntToStr(0 - n)
  ELSE IF n < 10 THEN <<DigitChar(n)>>
  ELSE IntToStr(n \div 10) \o <<DigitChar(n % 10)>>

\* a page reference is an int (single page) or a str (page group)
IntRef(n) == [type |-> "int", int |-> n, str |-> <<>>]

StrRef(cs) == [type |-> "str", int |-> 0, str |-> cs]

\* str(page_number), also what an f-string writes for it
PyStr(ref) == IF ref.type = "int" THEN IntToStr(ref.int) ELSE ref.str

\* hashlib.md5(text.encode()).hexdigest()[:n].upper(): the digest is not
\* computed, it is identified by the text it was taken of
Md5HexUpper(text, n) == [md5_of |-> text, hexlen |-> n]

\* lines 195-207: the digest mixes the wall clock in
GenerateHash(table_name, page_number, clock) ==
  [head   |-> <<>>,
   digest |-> Md5HexUpper(<<table_name, "_">> \o PyStr(page_number)
                          \o <<"_">> \o IntToStr(clock), 20)]

\* line 238: "BMR_B<batch>_P<page>_<md5 of str(page)>"
HashValue(exp_batch_no, page_number) ==
  [head   |-> <<"B", "M", "R", "_", "B">> \o IntToStr(exp_batch_no)
              \o <<"_", "P">> \o PyStr(page_number) \o <<"_">>,
   digest |-> Md5HexUpper(PyStr(page_number), 8)]

\* line 232: json.dumps(formatted_data).replace("'", "''"); the payload is
\* kept as the array of arrays it serialises
TableDataJson(formatted_data) == [json_array |-> formatted_data]

\* generate_sql_insert with a slip: the hash is taken from generate_hash
GenerateSqlInsertTimedHash(table_data, page_number, exp_id, exp_batch_no, clock) ==
  IF table_data = None \/ DOMAIN table_data = {} THEN None
  ELSE [exp_id               |-> exp_id,
        exp_batch_no         |-> exp_batch_no,
        exp_step_name        |-> "Equipment-Calibration-Check",
        table_name           |-> Get(table_data, "table_name",
                                     "Dispensing Area Checklist"),
        data_source          |-> "BMR-PDF-Scan",
        investigation_method |-> "NULL",
        table_data           |-> TableDataJson(FormatTableData(table_data)),
        created_on           |-> clock,
        hash                 |-> GenerateHash(
                                   Get(table_data, "table_name",
                                       "Dispensing Area Checklist"),
                                   page_number, clock),
        isDeleted            |-> 0,
        table_type           |-> "Checklist"]

\* lines 209-253: the columns of the VALUES list, or None
GenerateSqlInsert(table_data, page_number, exp_id, exp_batch_no, clock) ==
  IF table_data = None \/ DOMAIN table_data = {} THEN None
  ELSE [exp_id               |-> exp_id,
        exp_batch_no         |-> exp_batch_no,
        exp_step_name        |-> "Equipment-Calibration-Check",
        table_name           |-> Get(table_data, "table_name",
                                     "Dispensing Area Checklist"),
        data_source          |-> "BMR-PDF-Scan",
        investigation_method |-> "NULL",
        table_data           |-> TableDataJson(FormatTableData(table_data)),
        created_on           |-> clock,
        hash                 |-> HashValue(exp_batch_no, page_number),
        isDeleted            |-> 0,
        table_type           |-> "Checklist"]

\* lines 209: the defaults of exp_id and exp_batch_no
DefaultExpId == 46

DefaultExpBatchNo == 1

\* datetime.now() (line 235): the clock never runs backwards, so a read
\* returns the time of the previous read or a later one
ClockReads == now..MaxClock

\* ------------------------------------------------------------------------
\* Values of the variables of a run that is not the one being explored
\* ------------------------------------------------------------------------

NotParsed == [ok |-> FALSE, page_numbers |-> <<>>]

ParseIdle == content = <<>> /\ parse_pc = "idle" /\ parsed = NotParsed

MergeIdle == table_list = <<>> /\ merge_pc = "idle" /\ merged = None

EncodeIdle == enc_args = None /\ enc_results = <<>>

BatchIdle ==
  /\ folder_exp_id = 0 /\ folder_exp_batch_no = 0 /\ pdf_files = <<>> /\ pc = "idle"
  /\ doc = 0 /\ report = <<>> /\ artifacts = <<>> /\ self_page_numbers = <<>>
  /\ unit = 0 /\ page_idx = 0 /\ group_tables = <<>> /\ sql_statements = <<>>
  /\ page_log = <<>> /\ unit_sql = <<>>

\* ------------------------------------------------------------------------
\* Merge run: merge_table_data applied to one list of tables
\* ------------------------------------------------------------------------

TableLists == UNION { [1..n -> Tables] : n \in 0..MaxTables }

InitMerge ==
  /\ table_list \in TableLists
  /\ merge_pc = "ready"
  /\ merged = None
  /\ ParseIdle /\ EncodeIdle /\ BatchIdle /\ now = 0

\* lines 255-283 run on table_list
MergeStep ==
  /\ merge_pc = "ready"
  /\ merged' = MergeTableData(table_list)
  /\ merge_pc' = "done"
  /\ UNCHANGED <<table_list, pvars, evars, now, bvars>>

NextMerge == MergeStep

SpecMerge == InitMerge /\ [][NextMerge]_vars

\* ------------------------------------------------------------------------
\* Encode run: generate_sql_insert called twice with the same page_number,
\* exp_id and exp_batch_no, on any table and at any time
\* ------------------------------------------------------------------------

EncPageRefs ==
  { IntRef(5), IntRef(6), StrRef(<<"6", "-", "7">>), StrRef(<<"5", "-", "7">>) }

EncExpIds == {46, 47}

EncBatchNos == {1, 2}

InitEncode ==
  /\ enc_args \in [page_number : EncPageRefs, exp_id : EncExpIds,
                    exp_batch_no : EncBatchNos]
  /\ enc_results = <<>>
  /\ now = 0
  /\ ParseIdle /\ MergeIdle /\ BatchIdle

\* one call of generate_sql_insert (lines 209-253)
EncodeStep ==
  /\ enc_args # None
  /\ Len(enc_results) < 2
  /\ \E table_data \in Tables, clock \in ClockReads :
       /\ now' = clock
       /\ enc_results' = Append(enc_results,
                                GenerateSqlInsert(table_data, enc_args.page_number,
                                                  enc_args.exp_id,
                                                  enc_args.exp_batch_no, clock))
  /\ UNCHANGED <<enc_args, pvars, mvars, bvars>>

NextEncode == EncodeStep

SpecEncode == InitEncode /\ [][NextEncode]_vars

\* ------------------------------------------------------------------------
\* Parser run: the parsing loop applied to one specification text
\* ------------------------------------------------------------------------

\* the comma-separated tokens page specifications are written with
Tokens ==
  { <<"1">>, <<"2">>, <<" ", "3">>,
    <<"(", "1">>, <<"(", "2">>, <<"2", ")">>, <<"3", ")">>,
    <<"(">>, <<")">>, <<"x">>, <<"0">>, <<"-", "1">>,
    <<"(", "2", ")">> }

TokenSeqs == UNION { [1..n -> Tokens] : n \in 1..MaxParts }

\* texts of several lines, some of them comments
CommentedTexts ==
  { <<"#", " ", "n", "\n", "1", ",", " ", "2">>,
    <<"1", ",", "\n", "#", "2", "\n", "(", "2", ",", "3", ")">> }

InitParse ==
  /\ content \in { Join(toks, <<",">>) : toks \in TokenSeqs } \cup CommentedTexts
  /\ parse_pc = "ready"
  /\ parsed = NotParsed
  /\ MergeIdle /\ EncodeIdle /\ BatchIdle /\ now = 0

\* lines 423-465 run on the file's text
ParseStep ==
  /\ parse_pc = "ready"
  /\ parsed' = ParsePageSpec(content)
  /\ parse_pc' = "done"
  /\ UNCHANGED <<content, mvars, evars, now, bvars>>

NextParse == ParseStep

SpecParse == InitParse /\ [][NextParse]_vars

\* ------------------------------------------------------------------------
\* process_folder and process_all_pages: one batch of documents
\* ------------------------------------------------------------------------

\* the page-specification texts of the documents of a batch
DocSpecTexts ==
  { <<"1", ",", "(", "2", ",", "3", ")">>,
    <<"(", "1", ",", "2", ",", "3", ")">>,
    <<"1", ",", "x">>,
    <<"(", "1", ",", "2">> }

\* a .pdf of the content folder, with its .txt file when there is one
Documents ==
  { [has_txt |-> FALSE, txt |-> <<>>] }
    \cup { [has_txt |-> TRUE, txt |-> t] : t \in DocSpecTexts }

\* the (exp_id, exp_batch_no) pairs process_folder is called with
ExpArgs == { <<46, 1>>, <<47, 2>> }

\* the table printed on a page of the scanned documents: page 3 repeats the
\* row of page 1 under the headers of page 2, other pages have no body row
PageTable(page_num) ==
  [table_name |-> IF page_num = 2 THEN "Equipment Calibration Table"
                  ELSE "Dispensing Area Checklist",
   headers    |-> IF page_num = 1 THEN <<"Equipment", "ID">>
                  ELSE <<"Name", "Due">>,
   rows       |-> IF page_num \in {1, 3} THEN <<<<"r1", "a">>>>
                  ELSE IF page_num = 2 THEN <<<<"r2", "b">>>>
                  ELSE <<>>]

\* what extract_page_as_image and extract_table_from_image answer for a page:
\* no image, an exception of the rasterizer, None, or the table of the page
PageOutcomes(page_num) ==
  { [page |-> page_num, result |-> r, table |-> None] :
      r \in {"no_image", "raised", "not_recognized"} }
    \cup { [page |-> page_num, result |-> "table", table |-> PageTable(page_num)] }

Init ==
  /\ \E a \in ExpArgs : folder_exp_id = a[1] /\ folder_exp_batch_no = a[2]
  /\ pdf_files \in UNION { [1..n -> Documents] : n \in 0..MaxDocs }
  /\ pc = "start"
  /\ doc = 0
  /\ report = <<>>
  /\ artifacts = [d \in 1..Len(pdf_files) |-> <<>>]
  /\ self_page_numbers = <<>>
  /\ unit = 0
  /\ page_idx = 0
  /\ group_tables = <<>>
  /\ sql_statements = <<>>
  /\ page_log = <<>>
  /\ unit_sql = <<>>
  /\ now = 0
  /\ ParseIdle /\ MergeIdle /\ EncodeIdle

others == <<pvars, mvars, evars>>

extractor == <<self_page_numbers, unit, page_idx, group_tables, sql_statements,
               page_log, unit_sql>>

\* lines 402-404: no PDF in the folder
NoPdfFiles ==
  /\ pc = "start" /\ pdf_files = <<>>
  /\ pc' = "returned"
  /\ UNCHANGED <<folder_exp_id, folder_exp_batch_no, pdf_files, doc, report, artifacts,
                 extractor, now, others>>

\* lines 406-410: enter the for loop
EnterLoop ==
  /\ pc = "start" /\ pdf_files # <<>>
  /\ pc' = "doc_loop"
  /\ UNCHANGED <<folder_exp_id, folder_exp_batch_no, pdf_files, doc, report, artifacts,
                 extractor, now, others>>

\* the for loop takes the next document and leaves it at once
SkipDocument(line) ==
  /\ doc' = doc + 1
  /\ report' = Append(report, [doc |-> doc + 1, line |-> line])
  /\ UNCHANGED <<folder_exp_id, folder_exp_batch_no, pdf_files, pc, artifacts, extractor,
                 now, others>>

\* lines 418-420: no .txt file next to the .pdf
SkipNoTxt ==
  /\ pc = "doc_loop" /\ doc < Len(pdf_files)
  /\ ~pdf_files[doc + 1].has_txt
  /\ SkipDocument("Skipping - no corresponding .txt file found")

\* lines 423-465 and 490-492: int() raised ValueError in the parsing loop
SkipOnValueError ==
  /\ pc = "doc_loop" /\ doc < Len(pdf_files)
  /\ pdf_files[doc + 1].has_txt
  /\ ~ParsePageSpec(pdf_files[doc + 1].txt).ok
  /\ SkipDocument("Error processing: ValueError")

\* lines 473-477 and 490-492: the constructor of the extractor raised
ExtractorInitRaises ==
  /\ pc = "doc_loop" /\ doc < Len(pdf_files)
  /\ pdf_files[doc + 1].has_txt
  /\ ParsePageSpec(pdf_files[doc + 1].txt).ok
  /\ SkipDocument("Error processing: extractor")

\* lines 423-481 and 295-301: page_numbers is parsed and handed to a new
\* extractor, process_all_pages starts
StartDocument ==
  /\ pc = "doc_loop" /\ doc < Len(pdf_files)
  /\ pdf_files[doc + 1].has_txt
  /\ ParsePageSpec(pdf_files[doc + 1].txt).ok
  /\ self_page_numbers' = ParsePageSpec(pdf_files[doc + 1].txt).page_numbers
  /\ doc' = doc + 1
  /\ pc' = "unit_loop"
  /\ unit' = 0 /\ page_idx' = 0 /\ group_tables' = <<>>
  /\ sql_statements' = <<>> /\ page_log' = <<>> /\ unit_sql' = <<>>
  /\ UNCHANGED <<folder_exp_id, folder_exp_batch_no, pdf_files, report,
                 artifacts, now, others>>

\* lines 332-356 and 365-368: a single page
SinglePage ==
  /\ pc = "unit_loop" /\ unit < Len(self_page_numbers)
  /\ self_page_numbers[unit + 1].kind = "single"
  /\ \E o \in PageOutcomes(self_page_numbers[unit + 1].pages[1]),
        clock \in ClockReads :
       LET page_num == self_page_numbers[unit + 1].pages[1]
           sql == IF o.result = "table"
                  THEN GenerateSqlInsert(o.table, IntRef(page_num),
                                         DefaultExpId, DefaultExpBatchNo, clock)
                  ELSE None
       IN  /\ o.result # "table" => clock = now
           /\ now' = clock
           /\ sql_statements' = IF sql # None THEN Append(sql_statements, sql)
                                ELSE sql_statements
           /\ page_log' = Append(page_log, <<o>>)
           /\ unit_sql' = Append(unit_sql, sql)
  /\ unit' = unit + 1
  /\ UNCHANGED <<folder_exp_id, folder_exp_batch_no, pdf_files, pc, doc,
                 report, artifacts, self_page_numbers, page_idx, group_tables,
                 others>>

\* the answers logged so far for the unit being handled
CurrentLog == IF Len(page_log) > unit THEN page_log[unit + 1] ELSE <<>>

\* one page of a group with a slip: a page without image ends the group as
\* an exception does
GroupPageBreakOnMiss ==
  /\ pc = "unit_loop" /\ unit < Len(self_page_numbers)
  /\ self_page_numbers[unit + 1].kind = "group"
  /\ page_idx < Len(self_page_numbers[unit + 1].pages)
  /\ \E o \in PageOutcomes(self_page_numbers[unit + 1].pages[page_idx + 1]) :
       /\ page_log' = SubSeq(page_log, 1, unit) \o <<Append(CurrentLog, o)>>
       /\ IF o.result \in {"raised", "no_image"}
          THEN /\ unit' = unit + 1
               /\ page_idx' = 0
               /\ group_tables' = <<>>
               /\ unit_sql' = Append(unit_sql, None)
          ELSE /\ unit' = unit
               /\ page_idx' = page_idx + 1
               /\ group_tables' = IF o.result = "table"
                                  THEN Append(group_tables, o.table)
                                  ELSE group_tables
               /\ unit_sql' = unit_sql
  /\ UNCHANGED <<folder_exp_id, folder_exp_batch_no, pdf_files, pc, doc,
                 report, artifacts, self_page_numbers, sql_statements, now,
                 others>>

\* lines 309-319 and 365-368: one page of a group
GroupPage ==
  /\ pc = "unit_loop" /\ unit < Len(self_page_numbers)
  /\ self_page_numbers[unit + 1].kind = "group"
  /\ page_idx < Len(self_page_numbers[unit + 1].pages)
  /\ \E o \in PageOutcomes(self_page_numbers[unit + 1].pages[page_idx + 1]) :
       /\ page_log' = SubSeq(page_log, 1, unit) \o <<Append(CurrentLog, o)>>
       /\ IF o.result = "raised"
          THEN /\ unit' = unit + 1
               /\ page_idx' = 0
               /\ group_tables' = <<>>
               /\ unit_sql' = Append(unit_sql, None)
          ELSE /\ unit' = unit
               /\ page_idx' = page_idx + 1
               /\ group_tables' = IF o.result = "table"
                                  THEN Append(group_tables, o.table)
                                  ELSE group_tables
               /\ unit_sql' = unit_sql
  /\ UNCHANGED <<folder_exp_id, folder_exp_batch_no, pdf_files, pc, doc, report, artifacts,
                 self_page_numbers, sql_statements, now, others>>

\* lines 321-330 and 355-356: the pages of the group are read
GroupFinish ==
  /\ pc = "unit_loop" /\ unit < Len(self_page_numbers)
  /\ self_page_numbers[unit + 1].kind = "group"
  /\ page_idx = Len(self_page_numbers[unit + 1].pages)
  /\ \E clock \in ClockReads :
       LET page_item == self_page_numbers[unit + 1].pages
           sql == IF group_tables = <<>> THEN None
                  ELSE GenerateSqlInsert(
                         MergeTableData(group_tables),
                         StrRef(IntToStr(page_item[1]) \o <<"-">>
                                \o IntToStr(page_item[Len(page_item)])),
                         DefaultExpId, DefaultExpBatchNo, clock)
       IN  /\ group_tables = <<>> => clock = now
           /\ now' = clock
           /\ sql_statements' = IF sql # None THEN Append(sql_statements, sql)
                                ELSE sql_statements
           /\ unit_sql' = Append(unit_sql, sql)
  /\ page_log' = SubSeq(page_log, 1, unit) \o <<CurrentLog>>
  /\ unit' = unit + 1
  /\ page_idx' = 0
  /\ group_tables' = <<>>
  /\ UNCHANGED <<folder_exp_id, folder_exp_batch_no, pdf_files, pc, doc,
                 report, artifacts, self_page_numbers, others>>

\* process_all_pages returns and the for loop goes on
LeaveDocument(line) ==
  /\ pc' = "doc_loop"
  /\ report' = Append(report, [doc |-> doc, line |-> line])
  /\ self_page_numbers' = <<>> /\ unit' = 0 /\ page_idx' = 0 /\ group_tables' = <<>>
  /\ sql_statements' = <<>> /\ page_log' = <<>> /\ unit_sql' = <<>>
  /\ UNCHANGED <<folder_exp_id, folder_exp_batch_no, pdf_files, doc, now, others>>

\* lines 371-380 and 483-486: the statements are written to the .sql file
WriteOutput ==
  /\ pc = "unit_loop" /\ unit = Len(self_page_numbers)
  /\ sql_statements # <<>>
  /\ artifacts' = [artifacts EXCEPT ![doc] = sql_statements]
  /\ LeaveDocument("Successfully processed")

\* lines 372 and 490-492: open() of the .sql file raised
WriteRaises ==
  /\ pc = "unit_loop" /\ unit = Len(self_page_numbers)
  /\ sql_statements # <<>>
  /\ UNCHANGED artifacts
  /\ LeaveDocument("Error processing: OSError")

\* lines 371, 380 and 487-488: nothing to write
NoTablesExtracted ==
  /\ pc = "unit_loop" /\ unit = Len(self_page_numbers)
  /\ sql_statements = <<>>
  /\ UNCHANGED artifacts
  /\ LeaveDocument("No tables extracted")

\* lines 494-497: the for loop is over
BatchComplete ==
  /\ pc = "doc_loop" /\ doc = Len(pdf_files)
  /\ pc' = "complete"
  /\ UNCHANGED <<folder_exp_id, folder_exp_batch_no, pdf_files, doc, report, artifacts,
                 extractor, now, others>>

Next ==
  \/ NoPdfFiles \/ EnterLoop
  \/ SkipNoTxt \/ SkipOnValueError \/ ExtractorInitRaises \/ StartDocument
  \/ SinglePage \/ GroupPage \/ GroupFinish
  \/ WriteOutput \/ WriteRaises \/ NoTablesExtracted
  \/ BatchComplete

Spec == Init /\ [][Next]_vars

\* ------------------------------------------------------------------------
\* Properties of the parsing loop (checked under SpecParse)
\* ------------------------------------------------------------------------

\* the tokens of the text as an author reads them, comment lines left out
AuthoredTokens == Split(PageNumbersStr(content), ",")

AllDigits(c) == c # <<>> /\ \A k \in 1..Len(c) : c[k] \in DigitChars

\* a token that is a positive page number and nothing else
PageTok(t) == AllDigits(Strip(t)) /\ DigitsValue(Strip(t), 0) >= 1

\* "(n": opens a group with page n
OpenTok(t) == StartsWith(Strip(t), "(") /\ PageTok(Tail(Strip(t)))

\* "n)": closes a group with page n
CloseTok(t) ==
  LET c == Strip(t) IN
  c # <<>> /\ c[Len(c)] = ")" /\ PageTok(SubSeq(c, 1, Len(c) - 1))

TokPage(t) == DigitsValue(SelectSeq(t, LAMBDA x : x \in DigitChars), 0)

\* the reading of a text made only of single pages and groups of two or more
\* pages; plain = FALSE when the text is not of that shape
RECURSIVE PlainUnits(_, _)
PlainUnits(toks, k) ==
  IF k > Len(toks) THEN [plain |-> TRUE, units |-> <<>>]
  ELSE IF PageTok(toks[k])
  THEN LET r == PlainUnits(toks, k + 1) IN
       [plain |-> r.plain, units |-> <<Single(TokPage(toks[k]))>> \o r.units]
  ELSE IF /\ OpenTok(toks[k])
          /\ \E j \in (k + 1)..Len(toks) :
                /\ CloseTok(toks[j])
                /\ \A m \in (k + 1)..(j - 1) : PageTok(toks[m])
  THEN LET j == CHOOSE j \in (k + 1)..Len(toks) :
                  /\ CloseTok(toks[j])
                  /\ \A m \in (k + 1)..(j - 1) : PageTok(toks[m])
           r == PlainUnits(toks, j + 1)
       IN  [plain |-> r.plain,
            units |-> <<Group([m \in 1..(j - k + 1) |-> TokPage(toks[k + m - 1])])>>
                      \o r.units]
  ELSE [plain |-> FALSE, units |-> <<>>]

\* C1: a text made only of single-page tokens and parenthesised groups of
\* two or more positive pages parses to one unit per single and one per
\* group, in token order, each group holding its pages in the order written.
C1_UnitsMirrorTokens ==
  parse_pc = "done" =>
    LET r == PlainUnits(AuthoredTokens, 1) IN
    r.plain => parsed = [ok |-> TRUE, page_numbers |-> r.units]

\* "1,(2,3),2" has been parsed to [1, [2,3], 2]
C1_Witness ==
  /\ parse_pc = "done"
  /\ PlainUnits(AuthoredTokens, 1).plain
  /\ parsed.ok
  /\ parsed.page_numbers = <<Single(1), Group(<<2, 3>>), Single(2)>>

\* a token holds "(" and no token at or after it holds ")"
UnterminatedGroup(toks) ==
  \E k \in 1..Len(toks) :
    /\ Contains(toks[k], "(")
    /\ \A j \in k..Len(toks) : ~Contains(toks[j], ")")

\* C2: a text whose group is opened and never closed before the end of
\* input fails with a syntax error and yields no page-unit sequence.
C2_UnterminatedGroupRejected ==
  (parse_pc = "done" /\ UnterminatedGroup(AuthoredTokens)) =>
    (~parsed.ok /\ parsed.page_numbers = <<>>)

\* the numeric content of a token: what is left without parentheses
TokContent(t) == Strip(Remove(Remove(t, "("), ")"))

\* a token whose content is non-numeric, zero or negative
BadContent(t) ==
  TokContent(t) # <<>>
  /\ (~PyInt(TokContent(t)).ok \/ PyInt(TokContent(t)).val < 1)

\* C3: parsing succeeds only if the content of every token is a positive
\* integer, so every page of a successfully parsed sequence is >= 1.
C3_OnlyPositivePages ==
  parse_pc = "done" =>
    /\ (\E k \in 1..Len(AuthoredTokens) : BadContent(AuthoredTokens[k]))
         => ~parsed.ok
    /\ parsed.ok =>
         \A u \in 1..Len(parsed.page_numbers) :
           \A m \in 1..Len(parsed.page_numbers[u].pages) :
             parsed.page_numbers[u].pages[m] >= 1

\* a group written with nothing between "(" and ")"
EmptyGroupWritten(toks) ==
  \E k \in 1..(Len(toks) - 1) :
    Strip(toks[k]) = <<"(">> /\ Strip(toks[k + 1]) = <<")">>

\* C4: every group of the parser's output has at least one page, and a text
\* that writes a group with no page content is rejected.
C4_NoEmptyGroup ==
  parse_pc = "done" =>
    /\ EmptyGroupWritten(AuthoredTokens) => ~parsed.ok
    /\ \A u \in 1..Len(parsed.page_numbers) :
         Len(parsed.page_numbers[u].pages) >= 1

\* "(n)": a group opened and closed in one token
OneTokenGroup(t) ==
  LET c == Strip(t) IN
  Len(c) >= 3 /\ Head(c) = "(" /\ c[Len(c)] = ")"
  /\ PageTok(SubSeq(c, 2, Len(c) - 1))

\* C5: a first token "(n)" parses to a group holding exactly page n, and the
\* tokens after it are parsed as usual.
C5_OneTokenGroup ==
  (parse_pc = "done" /\ OneTokenGroup(AuthoredTokens[1])) =>
    LET rest == ParseLoop(Tail(AuthoredTokens), 1, <<>>) IN
    /\ parsed.ok = rest.ok
    /\ parsed.ok =>
         parsed.page_numbers
           = <<Group(<<TokPage(AuthoredTokens[1])>>)>> \o rest.page_numbers

\* ------------------------------------------------------------------------
\* Properties of merge_table_data (checked under SpecMerge)
\* ------------------------------------------------------------------------

\* number of rows contributed by the tables before position t
RECURSIVE RowOffset(_, _)
RowOffset(tl, t) ==
  IF t <= 1 THEN 0 ELSE RowOffset(tl, t - 1) + Len(tl[t - 1].rows)

\* C6: for a non-empty list T1..Tn the result has the table_name and the
\* headers of T1, and its rows are the rows of T1, ..., Tn one after the
\* other: row r of table t sits at position (rows before t) + r, and there
\* are no other rows.
C6_MergeConcatenates ==
  (merge_pc = "done" /\ table_list # <<>>) =>
    /\ merged.table_name = table_list[1].table_name
    /\ merged.headers = table_list[1].headers
    /\ Len(merged.rows) = RowOffset(table_list, Len(table_list) + 1)
    /\ \A t \in 1..Len(table_list) :
         \A r \in 1..Len(table_list[t].rows) :
           merged.rows[RowOffset(table_list, t) + r] = table_list[t].rows[r]

\* three tables have been merged, the first two holding the same row
C6_Witness ==
  /\ merge_pc = "done"
  /\ Len(table_list) = 3
  /\ table_list[1].rows = <<<<"r2", "b">>>>
  /\ table_list[2].rows = <<<<"r2", "b">>>>
  /\ table_list[3].rows = <<<<"r1", "a">>>>
  /\ table_list[2].headers # table_list[1].headers
  /\ merged.rows = <<<<"r2", "b">>, <<"r2", "b">>, <<"r1", "a">>>>

\* ------------------------------------------------------------------------
\* Properties of generate_sql_insert (checked under SpecEncode)
\* ------------------------------------------------------------------------

\* C9: two encodings with the same exp_batch_no and page_reference carry the
\* same hash, whatever the time of each call and whatever the table's name
\* and content; the hash is "BMR_B<batch>_P<page>_" followed by the digest
\* of the page reference.
C9_HashOfBatchAndPageOnly ==
  Len(enc_results) = 2 =>
    /\ enc_results[1].hash = enc_results[2].hash
    /\ enc_results[1].hash.head
         = <<"B", "M", "R", "_", "B">> \o IntToStr(enc_args.exp_batch_no)
           \o <<"_", "P">> \o PyStr(enc_args.page_number) \o <<"_">>
    /\ enc_results[1].hash.digest.md5_of = PyStr(enc_args.page_number)

\* the group "6-7" of batch 2 has been encoded twice, at different times,
\* from tables of different name and content
C9_Witness ==
  /\ Len(enc_results) = 2
  /\ enc_args.page_number = StrRef(<<"6", "-", "7">>)
  /\ enc_args.exp_batch_no = 2
  /\ enc_results[1].created_on # enc_results[2].created_on
  /\ enc_results[1].table_name # enc_results[2].table_name
  /\ enc_results[1].table_data # enc_results[2].table_data
  /\ enc_results[1].hash = enc_results[2].hash

\* ------------------------------------------------------------------------
\* Properties of the batch (checked under Spec)
\* ------------------------------------------------------------------------

\* the rows of the recognized pages of a log, in the order of the log
RECURSIVE RecognizedRows(_)
RecognizedRows(log) ==
  IF log = <<>> THEN <<>>
  ELSE (IF Head(log).result = "table" THEN Head(log).table.rows ELSE <<>>)
       \o RecognizedRows(Tail(log))

NoneRaised(log) == \A k \in 1..Len(log) : log[k].result # "raised"

SomeRecognized(log) == \E k \in 1..Len(log) : log[k].result = "table"

\* C7: in a group whose pages yield no image or are not recognized, every
\* page is still tried, in the order written; if at least one page is
\* recognized the group produces one statement whose rows are exactly the
\* rows of the recognized pages in that order, and it produces no statement
\* only when no page is recognized.
C7_PageFailuresIsolated ==
  \A u \in 1..Len(unit_sql) :
    (self_page_numbers[u].kind = "group" /\ NoneRaised(page_log[u])) =>
      /\ Len(page_log[u]) = Len(self_page_numbers[u].pages)
      /\ \A k \in 1..Len(page_log[u]) :
           page_log[u][k].page = self_page_numbers[u].pages[k]
      /\ IF SomeRecognized(page_log[u])
         THEN /\ unit_sql[u] # None
              /\ Tail(unit_sql[u].table_data.json_array)
                   = RecognizedRows(page_log[u])
              /\ \E k \in 1..Len(sql_statements) : sql_statements[k] = unit_sql[u]
         ELSE unit_sql[u] = None

\* the group (1,2,3) has produced a statement although its first page was
\* not recognized and its second page had no image
C7_Witness ==
  \E u \in 1..Len(unit_sql) :
    /\ self_page_numbers[u] = Group(<<1, 2, 3>>)
    /\ Len(page_log[u]) = 3
    /\ page_log[u][1].result = "table"
    /\ page_log[u][2].result = "no_image"
    /\ page_log[u][3].result = "not_recognized"
    /\ unit_sql[u] # None
    /\ Tail(unit_sql[u].table_data.json_array) = <<<<"r1", "a">>>>

\* a page specification the grammar rejects: a token of non-numeric, zero or
\* negative content, a group that is never closed, or a group without pages
Malformed(text) ==
  LET toks == Split(PageNumbersStr(text), ",") IN
  \/ \E k \in 1..Len(toks) : BadContent(toks[k])
  \/ UnterminatedGroup(toks)
  \/ EmptyGroupWritten(toks)

\* the documents the loop has left, each once and in batch order
VisitedOnceInOrder == \A k \in 1..Len(report) : report[k].doc = k

\* C8: a document whose specification file is missing or malformed, or
\* whose processing raised an error, has no output artifact; the documents
\* are visited once each, in order, and all of them when the batch completes.
C8_DocumentFailuresIsolated ==
  /\ VisitedOnceInOrder
  /\ pc = "complete" => Len(report) = Len(pdf_files)
  /\ \A k \in 1..Len(report) :
       ( \/ ~pdf_files[k].has_txt
         \/ Malformed(pdf_files[k].txt)
         \/ report[k].line \in {"Error processing: ValueError",
                                "Error processing: extractor",
                                "Error processing: OSError"} )
       => artifacts[k] = <<>>

\* the isolation of the document loop itself: a document left through the
\* missing-file branch or through the except clause has no artifact, the
\* documents are left once each and in order, and all are left at completion
LoopIsolatesRaisingDocuments ==
  /\ VisitedOnceInOrder
  /\ pc = "complete" => Len(report) = Len(pdf_files)
  /\ \A k \in 1..Len(report) :
       report[k].line \in {"Skipping - no corresponding .txt file found",
                           "Error processing: ValueError",
                           "Error processing: extractor",
                           "Error processing: OSError"}
       => artifacts[k] = <<>>

\* the steps process_all_pages still has to take for the units after `from`
RECURSIVE StepsOfUnits(_, _)
StepsOfUnits(units, from) ==
  IF from > Len(units) THEN 0
  ELSE Len(units[from].pages) + 1 + StepsOfUnits(units, from + 1)

\* an upper bound of the steps process_folder still has to take
Remaining ==
  (IF pc = "start" THEN 1 ELSE 0)
  + (IF pc \in {"start", "doc_loop", "unit_loop"} THEN 1 ELSE 0)
  + (Len(pdf_files) - doc) * (2 * MaxParts + 3)
  + (IF pc = "unit_loop"
     THEN 1 + StepsOfUnits(self_page_numbers, unit + 1) - page_idx ELSE 0)

\* every step of the batch brings process_folder nearer to its return
StepsDecreaseRemaining == [][Remaining' < Remaining /\ Remaining' >= 0]_vars

\* the loop counters stay within the sequences they index, so that some
\* branch of the code is open wherever process_folder has not returned
CountersInRange ==
  /\ pc \in {"start", "doc_loop", "unit_loop", "complete", "returned"}
  /\ doc \in 0..Len(pdf_files)
  /\ unit \in 0..Len(self_page_numbers)
  /\ (pc = "unit_loop" /\ unit < Len(self_page_numbers))
       => page_idx \in 0..Len(self_page_numbers[unit + 1].pages)
  /\ pc = "unit_loop" => doc >= 1

IsPrefix(p, q) == Len(p) <= Len(q) /\ SubSeq(q, 1, Len(p)) = p

\* C10: every statement written for a document of the batch carries the
\* exp_id and the exp_batch_no given to process_folder, and its hash is
\* built from that exp_batch_no.
C10_ExperimentIdsReachRecords ==
  \A d \in 1..Len(artifacts) :
    \A k \in 1..Len(artifacts[d]) :
      /\ artifacts[d][k].exp_id = folder_exp_id
      /\ artifacts[d][k].exp_batch_no = folder_exp_batch_no
      /\ IsPrefix(<<"B", "M", "R", "_", "B">> \o IntToStr(folder_exp_batch_no)
                    \o <<"_", "P">>,
                  artifacts[d][k].hash.head)

\* ------------------------------------------------------------------------
\* Statements of process_all_pages, unit by unit (checked under Spec)
\* ------------------------------------------------------------------------

\* the statements among the per-unit results, in the order of the units
RECURSIVE Emitted(_)
Emitted(sqls) ==
  IF sqls = <<>> THEN <<>>
  ELSE (IF Head(sqls) # None THEN <<Head(sqls)>> ELSE <<>>)
       \o Emitted(Tail(sqls))

\* the headers of the first recognized page of a log that has one
RECURSIVE FirstHeaders(_)
FirstHeaders(log) ==
  IF Head(log).result = "table" THEN Head(log).table.headers
  ELSE FirstHeaders(Tail(log))

\* the page reference of a unit as the specification writes it: the page
\* number of a single, "first-last" of the pages of a group as written
WrittenReference(item) ==
  IF item.kind = "single" THEN IntToStr(item.pages[1])
  ELSE IntToStr(item.pages[1]) \o <<"-">>
         \o IntToStr(item.pages[Len(item.pages)])

\* the statement is the one of the unit: its hash names the written page
\* reference and its table_data is the headers row followed by the rows of
\* the recognized pages
StatementOfUnit(sql, item, log) ==
  /\ sql # None
  /\ sql.hash.digest.md5_of = WrittenReference(item)
  /\ sql.hash.head = <<"B", "M", "R", "_", "B">> \o IntToStr(DefaultExpBatchNo)
                       \o <<"_", "P">> \o WrittenReference(item) \o <<"_">>
  /\ sql.table_data.json_array = <<FirstHeaders(log)>> \o RecognizedRows(log)

\* C11: whatever the external calls do, process_all_pages emits exactly one
\* statement for each unit with at least one recognized page and none for
\* the other units, in the order of the units; the statement carries the
\* written page reference (page number, or "first-last" of the group as
\* written) and its table_data is the headers row followed by the rows.
C11_OneStatementPerRecognizedUnit ==
  /\ sql_statements = Emitted(unit_sql)
  /\ \A u \in 1..Len(unit_sql) :
       IF SomeRecognized(page_log[u])
       THEN StatementOfUnit(unit_sql[u], self_page_numbers[u], page_log[u])
       ELSE unit_sql[u] = None

\* what the code does: a unit in which a call raised emits nothing, even
\* after recognized pages; every other unit emits as C11 says
UnitsEmitUnlessRaised ==
  /\ sql_statements = Emitted(unit_sql)
  /\ \A u \in 1..Len(unit_sql) :
       IF SomeRecognized(page_log[u]) /\ NoneRaised(page_log[u])
       THEN StatementOfUnit(unit_sql[u], self_page_numbers[u], page_log[u])
       ELSE unit_sql[u] = None

\* "1,(2,3)" with every page recognized: two statements, the second with
\* page reference "2-3" and the headers row followed by the rows of 2 and 3
TwoRecordsOfSingleAndGroup ==
  /\ self_page_numbers = <<Single(1), Group(<<2, 3>>)>>
  /\ Len(sql_statements) = 2
  /\ sql_statements[1].hash.digest.md5_of = <<"1">>
  /\ sql_statements[2].hash.digest.md5_of = <<"2", "-", "3">>
  /\ sql_statements[2].table_data.json_array
       = <<<<"Name", "Due">>, <<"r2", "b">>, <<"r1", "a">>>>

\* a group whose first and last page were skipped keeps "first-last" of
\* the pages as written
SkippedEndsKeepReference ==
  \E u \in 1..Len(unit_sql) :
    /\ self_page_numbers[u] = Group(<<1, 2, 3>>)
    /\ Len(page_log[u]) = 3
    /\ page_log[u][1].result = "no_image"
    /\ page_log[u][2].result = "table"
    /\ page_log[u][3].result = "not_recognized"
    /\ StatementOfUnit(unit_sql[u], self_page_numbers[u], page_log[u])
    /\ unit_sql[u].hash.digest.md5_of = <<"1", "-", "3">>

\* the group (1,2,3) whose first page was recognized and whose second page
\* made the rasterizer raise: the unit is over without a statement
RecognizedThenRaised ==
  \E u \in 1..Len(unit_sql) :
    /\ self_page_numbers[u] = Group(<<1, 2, 3>>)
    /\ Len(page_log[u]) = 2
    /\ page_log[u][1].result = "table"
    /\ page_log[u][2].result = "raised"
    /\ unit_sql[u] = None

====
